---- MODULE Spec2Model ----
(***************************************************************************)
(* The EBX Agent MCP server (server.py): four tools, each one outbound     *)
(* HTTP request to the EBX Agent API followed by a relay of the response.  *)
(*                                                                         *)
(* A text (a Python str) is a sequence of one-character strings, so that   *)
(* equality, concatenation and substring search are the ones of Python.    *)
(* response.text is the body as httpx hands it over; response.json() and   *)
(* the f-strings are computed from it character by character.              *)
(***************************************************************************)
EXTENDS Integers, Sequences, FiniteSets, TLC

VARIABLES
    BASE_URL,   \* module global, server.py:12
    AUTH,       \* module global, server.py:15
    pc,         \* pc[i]: "idle", "awaiting" (suspended in await client.get/post), "returned", "raised"
    frame,      \* frame[i]: the tool called and the keyword arguments it was called with
    nreq,       \* nreq[i]: how many HTTP requests invocation i has issued
    requests,   \* requests in flight to the backend
    responses,  \* responses in flight from the backend
    served,     \* served[i]: the response the backend produced for i's request
    outcome     \* outcome[i]: what the invocation returned or raised

vars == <<BASE_URL, AUTH, pc, frame, nreq, requests, responses, served, outcome>>

----------------------------------------------------------------------------
(* Bounds of the model *)

\* Number of invocations that may be in progress at once.
MaxCalls == 2
\* Longest `details` message the backend sends, in characters.
MaxDetailLen == 2
\* Largest k a caller passes to find_similar_records.
MaxK == 6

----------------------------------------------------------------------------
(* Texts *)

DigitChars == <<"0", "1", "2", "3", "4", "5", "6", "7", "8", "9">>

IsDigit(c) == \E d \in 1..10 : DigitChars[d] = c

DigitValue(c) == (CHOOSE d \in 1..10 : DigitChars[d] = c) - 1

\* str(n) of a Python int: decimal digits, a leading "-" when negative.
RECURSIVE IntToText(_)
IntToText(n) ==
    IF n < 0 THEN <<"-">> \o IntToText(-n)
    ELSE IF n < 10 THEN <<DigitChars[n + 1]>>
    ELSE IntToText(n \div 10) \o <<DigitChars[(n % 10) + 1]>>

\* int(t) of a text of decimal digits.
RECURSIVE DigitsToInt(_)
DigitsToInt(t) ==
    IF t = <<>> THEN 0
    ELSE 10 * DigitsToInt(SubSeq(t, 1, Len(t) - 1)) + DigitValue(t[Len(t)])

\* needle in hay, as Python's `in` on str.
Contains(hay, needle) ==
    \E p \in 1..(Len(hay) + 1) :
        /\ p + Len(needle) - 1 <= Len(hay)
        /\ SubSeq(hay, p, p + Len(needle) - 1) = needle

StartsAt(t, p, lit) ==
    /\ p + Len(lit) - 1 <= Len(t)
    /\ SubSeq(t, p, p + Len(lit) - 1) = lit

----------------------------------------------------------------------------
(* json.loads, as response.json() applies it to the body.  Grammar: objects,*)
(* arrays, strings without escape sequences, numbers with an optional       *)
(* fraction, true, false, null, blanks between tokens.                      *)

JStr(t)  == [t |-> "str",  s |-> t,    items |-> <<>>]
JNum(t)  == [t |-> "num",  s |-> t,    items |-> <<>>]
JBool(t) == [t |-> "bool", s |-> t,    items |-> <<>>]
JNull    == [t |-> "null", s |-> <<>>, items |-> <<>>]
JArr(xs) == [t |-> "arr",  s |-> <<>>, items |-> xs]
JObj(ms) == [t |-> "obj",  s |-> <<>>, items |-> ms]

ParseFail == [ok |-> FALSE, val |-> JNull, pos |-> 0]
Parsed(v, p) == [ok |-> TRUE, val |-> v, pos |-> p]

RECURSIVE SkipWs(_, _)
SkipWs(t, p) ==
    IF p <= Len(t) /\ t[p] = " " THEN SkipWs(t, p + 1) ELSE p

\* First position at or after p that holds no digit.
RECURSIVE SkipDigits(_, _)
SkipDigits(t, p) ==
    IF p <= Len(t) /\ IsDigit(t[p]) THEN SkipDigits(t, p + 1) ELSE p

\* Position of the closing quote of the string whose content starts at p; 0 if none.
RECURSIVE ClosingQuote(_, _)
ClosingQuote(t, p) ==
    IF p > Len(t) THEN 0
    ELSE IF t[p] = "\"" THEN p
    ELSE IF t[p] = "\\" THEN 0
    ELSE ClosingQuote(t, p + 1)

\* The string whose opening quote is at p and whose closing quote is at q.
StringUpTo(t, p, q) ==
    IF q = 0 THEN ParseFail ELSE Parsed(JStr(SubSeq(t, p + 1, q - 1)), q + 1)

ParseString(t, p) ==
    IF p > Len(t) \/ t[p] # "\"" THEN ParseFail
    ELSE StringUpTo(t, p, ClosingQuote(t, p + 1))

\* End of the integer part that starts at i: "0", or digits that do not start with 0.
IntegerEnd(t, i) ==
    IF i <= Len(t) /\ t[i] = "0" THEN i + 1 ELSE SkipDigits(t, i)

\* End of the optional fraction that starts at i.
FractionEnd(t, i) ==
    IF i + 1 <= Len(t) /\ t[i] = "." /\ IsDigit(t[i + 1]) THEN SkipDigits(t, i + 1) ELSE i

\* The number that starts at p, its digits at i0 and its integer part ending before i1.
NumberUpTo(t, p, i0, i1) ==
    IF i1 = i0 THEN ParseFail
    ELSE Parsed(JNum(SubSeq(t, p, FractionEnd(t, i1) - 1)), FractionEnd(t, i1))

NumberFrom(t, p, i0) == NumberUpTo(t, p, i0, IntegerEnd(t, i0))

\* -?(0|[1-9][0-9]*)(\.[0-9]+)?
ParseNumber(t, p) ==
    NumberFrom(t, p, IF p <= Len(t) /\ t[p] = "-" THEN p + 1 ELSE p)

\* dict[k] = v: an existing key keeps its place and takes the new value.
DictSet(ms, key, val) ==
    IF \E j \in 1..Len(ms) : ms[j].k = key
    THEN [j \in 1..Len(ms) |-> IF ms[j].k = key THEN [k |-> key, v |-> val] ELSE ms[j]]
    ELSE Append(ms, [k |-> key, v |-> val])

RECURSIVE ParseValue(_, _), ParseMembers(_, _, _), ParseElements(_, _, _)

\* After a member: "}" ends the object, "," brings the next member.
MembersNext(t, e, acc) ==
    IF e > Len(t) THEN ParseFail
    ELSE IF t[e] = "}" THEN Parsed(JObj(acc), e + 1)
    ELSE IF t[e] = "," THEN ParseMembers(t, SkipWs(t, e + 1), acc)
    ELSE ParseFail

MemberValue(t, key, v, acc) ==
    IF ~v.ok THEN ParseFail
    ELSE MembersNext(t, SkipWs(t, v.pos), DictSet(acc, key.val.s, v.val))

MemberColon(t, key, c, acc) ==
    IF c > Len(t) \/ t[c] # ":" THEN ParseFail
    ELSE MemberValue(t, key, ParseValue(t, SkipWs(t, c + 1)), acc)

MemberKey(t, key, acc) ==
    IF ~key.ok THEN ParseFail ELSE MemberColon(t, key, SkipWs(t, key.pos), acc)

\* Members of an object; p is at the first character of a key.
ParseMembers(t, p, acc) == MemberKey(t, ParseString(t, p), acc)

\* After an element: "]" ends the array, "," brings the next element.
ElementsNext(t, e, acc) ==
    IF e > Len(t) THEN ParseFail
    ELSE IF t[e] = "]" THEN Parsed(JArr(acc), e + 1)
    ELSE IF t[e] = "," THEN ParseElements(t, SkipWs(t, e + 1), acc)
    ELSE ParseFail

ElementValue(t, v, acc) ==
    IF ~v.ok THEN ParseFail
    ELSE ElementsNext(t, SkipWs(t, v.pos), Append(acc, v.val))

\* Elements of an array; p is at the first character of a value.
ParseElements(t, p, acc) == ElementValue(t, ParseValue(t, p), acc)

\* The object whose first token after "{" is at q.
ObjectFrom(t, q) ==
    IF q <= Len(t) /\ t[q] = "}" THEN Parsed(JObj(<<>>), q + 1)
    ELSE ParseMembers(t, q, <<>>)

\* The array whose first token after "[" is at q.
ArrayFrom(t, q) ==
    IF q <= Len(t) /\ t[q] = "]" THEN Parsed(JArr(<<>>), q + 1)
    ELSE ParseElements(t, q, <<>>)

ParseValue(t, p) ==
    IF p > Len(t) THEN ParseFail
    ELSE IF t[p] = "{" THEN ObjectFrom(t, SkipWs(t, p + 1))
    ELSE IF t[p] = "[" THEN ArrayFrom(t, SkipWs(t, p + 1))
    ELSE IF t[p] = "\"" THEN ParseString(t, p)
    ELSE IF t[p] = "-" \/ IsDigit(t[p]) THEN ParseNumber(t, p)
    ELSE IF StartsAt(t, p, <<"t", "r", "u", "e">>) THEN Parsed(JBool(<<"T", "r", "u", "e">>), p + 4)
    ELSE IF StartsAt(t, p, <<"f", "a", "l", "s", "e">>) THEN Parsed(JBool(<<"F", "a", "l", "s", "e">>), p + 5)
    ELSE IF StartsAt(t, p, <<"n", "u", "l", "l">>) THEN Parsed(JNull, p + 4)
    ELSE ParseFail

\* The document is the value v if only blanks follow it.
WholeDocument(t, v) ==
    IF v.ok /\ SkipWs(t, v.pos) = Len(t) + 1 THEN v ELSE ParseFail

\* json.loads(t): one value, blanks around it, nothing after it.
JsonLoads(t) == WholeDocument(t, ParseValue(t, SkipWs(t, 1)))

----------------------------------------------------------------------------
(* Python values in an f-string: format(v, "") is str(v). *)

\* Fraction digits without their trailing zeros, at least one digit kept.
RECURSIVE StripZeros(_)
StripZeros(t) ==
    IF Len(t) > 1 /\ t[Len(t)] = "0" THEN StripZeros(SubSeq(t, 1, Len(t) - 1)) ELSE t

\* Position of "." in a number literal, 0 if it has none.
DotAt(t) ==
    IF \E p \in 1..Len(t) : t[p] = "." THEN CHOOSE p \in 1..Len(t) : t[p] = "." ELSE 0

\* str() of the float whose digits are `body`, with the "." at dot.
FloatStr(body, dot) ==
    SubSeq(body, 1, dot - 1) \o <<".">> \o StripZeros(SubSeq(body, dot + 1, Len(body)))

\* str() of the number whose digits, sign apart, are `body`.
UnsignedStr(body) ==
    IF DotAt(body) = 0 THEN IntToText(DigitsToInt(body)) ELSE FloatStr(body, DotAt(body))

\* str() of the int or float a number literal denotes (floats: the plain
\* decimal notation repr() uses between 1e-4 and 1e16).
NumberStr(t) ==
    IF t[1] # "-" THEN UnsignedStr(t)
    ELSE IF DotAt(t) = 0
    THEN IntToText(0 - DigitsToInt(SubSeq(t, 2, Len(t))))
    ELSE <<"-">> \o UnsignedStr(SubSeq(t, 2, Len(t)))

\* repr() of a str: single quotes, double quotes when it holds a single quote.
StrRepr(t) ==
    IF \E p \in 1..Len(t) : t[p] = "'"
    THEN <<"\"">> \o t \o <<"\"">>
    ELSE <<"'">> \o t \o <<"'">>

RECURSIVE PyRepr(_), JoinRepr(_, _), JoinItems(_, _)

\* ", ".join(repr(x) for x in xs[from:])
JoinRepr(xs, from) ==
    IF from > Len(xs) THEN <<>>
    ELSE PyRepr(xs[from])
         \o (IF from < Len(xs) THEN <<",", " ">> ELSE <<>>)
         \o JoinRepr(xs, from + 1)

\* ", ".join(repr(k) + ": " + repr(v) for k, v in ms[from:])
JoinItems(ms, from) ==
    IF from > Len(ms) THEN <<>>
    ELSE StrRepr(ms[from].k) \o <<":", " ">> \o PyRepr(ms[from].v)
         \o (IF from < Len(ms) THEN <<",", " ">> ELSE <<>>)
         \o JoinItems(ms, from + 1)

PyRepr(v) ==
    CASE v.t = "str"  -> StrRepr(v.s)
      [] v.t = "num"  -> NumberStr(v.s)
      [] v.t = "bool" -> v.s
      [] v.t = "null" -> <<"N", "o", "n", "e">>
      [] v.t = "arr"  -> <<"[">> \o JoinRepr(v.items, 1) \o <<"]">>
      [] v.t = "obj"  -> <<"{">> \o JoinItems(v.items, 1) \o <<"}">>

PyStr(v) == IF v.t = "str" THEN v.s ELSE PyRepr(v)

----------------------------------------------------------------------------
(* Python control flow: an evaluation yields a value or raises. *)

Value(v)    == [exc |-> "", val |-> v]
Raised(e)   == [exc |-> e,  val |-> JNull]

Return(t)   == [kind |-> "return", value |-> t,    exc |-> ""]
Raise(e)    == [kind |-> "raise",  value |-> <<>>, exc |-> e]
NoOutcome   == [kind |-> "none",   value |-> <<>>, exc |-> ""]

\* The exception classes involved and their base classes.
BaseOf(e) ==
    CASE e = "JSONDecodeError" -> "ValueError"
      [] e = "ValueError"      -> "Exception"
      [] e = "AttributeError"  -> "Exception"
      [] e = "KeyError"        -> "LookupError"
      [] e = "LookupError"     -> "Exception"
      [] e = "HTTPStatusError" -> "HTTPError"
      [] e = "ConnectError"    -> "HTTPError"
      [] e = "HTTPError"       -> "Exception"
      [] OTHER                 -> "BaseException"

\* isinstance(e, cls), as an except clause tests it.
RECURSIVE IsInstance(_, _)
IsInstance(e, cls) ==
    \/ e = cls
    \/ e # "BaseException" /\ IsInstance(BaseOf(e), cls)

----------------------------------------------------------------------------
(* httpx.Response *)

NoResponse == [status_code |-> 0, text |-> <<>>]

is_success(response) == 200 <= response.status_code /\ response.status_code <= 299

is_error(response) == 400 <= response.status_code /\ response.status_code <= 599

\* What response.json() evaluates to, given what json.loads made of the body.
JsonResult(v) == IF v.ok THEN Value(v.val) ELSE Raised("JSONDecodeError")

\* response.json()
json(response) == JsonResult(JsonLoads(response.text))

\* error_data.get(key, default): only a dict has the attribute.
get(error_data, key, default) ==
    IF error_data.t # "obj" THEN Raised("AttributeError")
    ELSE IF \E j \in 1..Len(error_data.items) : error_data.items[j].k = key
         THEN Value(error_data.items[CHOOSE j \in 1..Len(error_data.items) :
                                         error_data.items[j].k = key].v)
         ELSE Value(default)

\* response.raise_for_status(): the exception raised, "" if none.
raise_for_status(response) ==
    IF is_success(response) THEN "" ELSE "HTTPStatusError"

----------------------------------------------------------------------------
(* The four tools.  Each is the request it sends, and what it does with the *)
(* response once the await resumes.                                         *)

\* Default of find_similar_records' parameter k.
DefaultK == 5

Request(method, path, params, body) ==
    [method |-> method, url |-> BASE_URL \o path,
     params |-> params, json |-> body, auth |-> AUTH]

\* Faulty variant: error_data['details'] in place of .get with a default.
details_subscript(error_data) ==
    IF error_data.exc # "" THEN error_data
    ELSE IF error_data.val.t = "obj"
            /\ \A j \in 1..Len(error_data.val.items) : error_data.val.items[j].k # <<"d", "e", "t", "a", "i", "l", "s">>
    THEN Raised("KeyError")
    ELSE get(error_data.val, <<"d", "e", "t", "a", "i", "l", "s">>, JNull)

\* The body of the try statements: error_data = response.json(), then
\* error_data.get('details', 'Unknown error'); error_data is what
\* response.json() evaluated to.
details_of(error_data) ==
    IF error_data.exc # "" THEN error_data
    ELSE get(error_data.val, <<"d", "e", "t", "a", "i", "l", "s">>, JStr(<<"U", "n", "k", "n", "o", "w", "n", " ", "e", "r", "r", "o", "r">>))

search_schema_request(kwargs) ==
    Request("GET", "/agent/v1/search", << <<"query", kwargs.query>> >>, <<>>)

\* Faulty variant: the raise_for_status() line left out.
search_schema_result_unchecked(response) == Return(response.text)

search_schema_result(response) ==
    IF raise_for_status(response) # "" THEN Raise(raise_for_status(response))
    ELSE Return(response.text)

execute_sql_request(kwargs) ==
    Request("POST", "/agent/v1/sql", <<>>,
            << <<"sql", kwargs.sql>>,
               <<"dataspace", kwargs.dataspace>>,
               <<"dataset", kwargs.dataset>> >>)

\* Faulty variant: no try/except around the parse.
execute_sql_try_uncaught(response, details) ==
    IF details.exc = ""
    THEN Return(<<"E", "B", "X", " ", "S", "Q", "L", " ", "E", "r", "r", "o", "r", ":", " ">> \o PyStr(details.val))
    ELSE Raise(details.exc)

\* Faulty variant: the detail formatted with !r.
execute_sql_try_repr(response, details) ==
    IF details.exc = ""
    THEN Return(<<"E", "B", "X", " ", "S", "Q", "L", " ", "E", "r", "r", "o", "r", ":", " ">> \o PyRepr(details.val))
    ELSE IF IsInstance(details.exc, "Exception")
    THEN Return(<<"H", "T", "T", "P", " ", "E", "r", "r", "o", "r", " ">> \o IntToText(response.status_code) \o <<":", " ">> \o response.text)
    ELSE Raise(details.exc)

\* Faulty variant: `except ValueError` in place of `except Exception`.
execute_sql_try_except_value_error(response, details) ==
    IF details.exc = ""
    THEN Return(<<"E", "B", "X", " ", "S", "Q", "L", " ", "E", "r", "r", "o", "r", ":", " ">> \o PyStr(details.val))
    ELSE IF IsInstance(details.exc, "ValueError")
    THEN Return(<<"H", "T", "T", "P", " ", "E", "r", "r", "o", "r", " ">> \o IntToText(response.status_code) \o <<":", " ">> \o response.text)
    ELSE Raise(details.exc)

\* The try statement of execute_sql; details is what its body evaluated to.
execute_sql_try(response, details) ==
    IF details.exc = ""
    THEN Return(<<"E", "B", "X", " ", "S", "Q", "L", " ", "E", "r", "r", "o", "r", ":", " ">> \o PyStr(details.val))
    ELSE IF IsInstance(details.exc, "Exception")
    THEN Return(<<"H", "T", "T", "P", " ", "E", "r", "r", "o", "r", " ">> \o IntToText(response.status_code) \o <<":", " ">> \o response.text)
    ELSE Raise(details.exc)

execute_sql_result(response) ==
    IF is_error(response) THEN execute_sql_try(response, details_of(json(response)))
    ELSE Return(response.text)

\* Faulty variant: a k below 1 replaced by the default.
find_similar_records_request_positive_k(kwargs) ==
    Request("POST", "/agent/v1/vector-similarity", <<>>,
            << <<"dataspace", kwargs.dataspace>>,
               <<"dataset", kwargs.dataset>>,
               <<"tablePath", kwargs.table_path>>,
               <<"recordPk", kwargs.record_pk>>,
               <<"k", IF "k" \in DOMAIN kwargs /\ kwargs.k >= 1 THEN kwargs.k ELSE DefaultK>> >>)

find_similar_records_request(kwargs) ==
    Request("POST", "/agent/v1/vector-similarity", <<>>,
            << <<"dataspace", kwargs.dataspace>>,
               <<"dataset", kwargs.dataset>>,
               <<"tablePath", kwargs.table_path>>,
               <<"recordPk", kwargs.record_pk>>,
               <<"k", IF "k" \in DOMAIN kwargs THEN kwargs.k ELSE DefaultK>> >>)

\* The try statement of find_similar_records; details is what its body evaluated to.
find_similar_records_try(response, details) ==
    IF details.exc = ""
    THEN Return(<<"E", "B", "X", " ", "V", "e", "c", "t", "o", "r", " ", "S", "i", "m", "i", "l", "a", "r", "i", "t", "y", " ", "E", "r", "r", "o", "r", ":", " ">> \o PyStr(details.val))
    ELSE IF IsInstance(details.exc, "Exception")
    THEN Return(<<"H", "T", "T", "P", " ", "E", "r", "r", "o", "r", " ">> \o IntToText(response.status_code) \o <<":", " ">> \o response.text)
    ELSE Raise(details.exc)

find_similar_records_result(response) ==
    IF is_error(response) THEN find_similar_records_try(response, details_of(json(response)))
    ELSE Return(response.text)

get_table_definition_request(kwargs) ==
    Request("GET", "/agent/v1/fields",
            << <<"dataspace", kwargs.dataspace>>,
               <<"dataset", kwargs.dataset>>,
               <<"path", kwargs.path>> >>,
            <<>>)

\* The try statement of get_table_definition; details is what its body evaluated to.
get_table_definition_try(response, details) ==
    IF details.exc = ""
    THEN Return(<<"E", "B", "X", " ", "S", "Q", "L", " ", "E", "r", "r", "o", "r", ":", " ">> \o PyStr(details.val))
    ELSE IF IsInstance(details.exc, "Exception")
    THEN Return(<<"H", "T", "T", "P", " ", "E", "r", "r", "o", "r", " ">> \o IntToText(response.status_code) \o <<":", " ">> \o response.text)
    ELSE Raise(details.exc)

\* str.strip() of blanks.
RECURSIVE Strip(_)
Strip(t) ==
    IF t # <<>> /\ t[1] = " " THEN Strip(Tail(t))
    ELSE IF t # <<>> /\ t[Len(t)] = " " THEN Strip(SubSeq(t, 1, Len(t) - 1))
    ELSE t

\* Faulty variant: the success body stripped before it is returned.
get_table_definition_result_strip(response) ==
    IF is_error(response) THEN get_table_definition_try(response, details_of(json(response)))
    ELSE Return(Strip(response.text))

get_table_definition_result(response) ==
    IF is_error(response) THEN get_table_definition_try(response, details_of(json(response)))
    ELSE Return(response.text)

\* The tools registered with @mcp.tool().
Tools == {"search_schema", "execute_sql", "find_similar_records", "get_table_definition"}

RequestOf(call) ==
    CASE call.op = "search_schema"        -> search_schema_request(call.kwargs)
      [] call.op = "execute_sql"          -> execute_sql_request(call.kwargs)
      [] call.op = "find_similar_records" -> find_similar_records_request(call.kwargs)
      [] call.op = "get_table_definition" -> get_table_definition_request(call.kwargs)

ResultOf(op, response) ==
    CASE op = "search_schema"        -> search_schema_result(response)
      [] op = "execute_sql"          -> execute_sql_result(response)
      [] op = "find_similar_records" -> find_similar_records_result(response)
      [] op = "get_table_definition" -> get_table_definition_result(response)

----------------------------------------------------------------------------
(* Inputs: the calls the MCP runtime makes and the responses the backend    *)
(* gives.                                                                   *)

Inv == 1..MaxCalls

NoFrame == [op |-> "none", kwargs |-> <<>>]

SqlText == "SELECT * FROM \"/root/Company\""

KValues == (-1)..MaxK

Calls ==
    {[op |-> "search_schema", kwargs |-> [query |-> q]] : q \in {"company", ""}}
    \cup {[op |-> "execute_sql",
           kwargs |-> [sql |-> s, dataspace |-> "Reference", dataset |-> d]] :
             s \in {SqlText, "DROP"}, d \in {"MIMA", ""}}
    \cup {[op |-> "get_table_definition",
           kwargs |-> [dataspace |-> "Reference", dataset |-> "MIMA", path |-> p]] :
             p \in {"/root/Company", "Company"}}
    \cup {[op |-> "find_similar_records",
           kwargs |-> [dataspace |-> "Reference", dataset |-> "MIMA",
                       table_path |-> "/root/Company", record_pk |-> "1"]]}
    \cup {[op |-> "find_similar_records",
           kwargs |-> [dataspace |-> "Reference", dataset |-> "MIMA",
                       table_path |-> "/root/Company", record_pk |-> "1", k |-> k]] :
             k \in KValues}

\* One call of each tool, for the runs with several invocations in progress.
FewCalls ==
    {[op |-> "search_schema", kwargs |-> [query |-> "company"]],
     [op |-> "execute_sql",
      kwargs |-> [sql |-> SqlText, dataspace |-> "Reference", dataset |-> "MIMA"]],
     [op |-> "get_table_definition",
      kwargs |-> [dataspace |-> "Reference", dataset |-> "MIMA", path |-> "/root/Company"]],
     [op |-> "find_similar_records",
      kwargs |-> [dataspace |-> "Reference", dataset |-> "MIMA",
                  table_path |-> "/root/Company", record_pk |-> "1"]]}

StatusCodes == {200, 204, 302, 400, 404, 500}

DetailAlphabet == {"u", "c"}

\* The `details` messages: every text up to MaxDetailLen, and the one of the
\* SQL example.
DetailTexts ==
    UNION {[1..n -> DetailAlphabet] : n \in 0..MaxDetailLen}
    \cup {<<"u", "n", "k", "n", "o", "w", "n", " ", "c", "o", "l", "u", "m", "n">>}

DetailsBody(x) == <<"{", "\"", "d", "e", "t", "a", "i", "l", "s", "\"", ":", "\"">> \o x \o <<"\"", "}">>

ObjectBodiesWithoutDetails ==
    {<<"{", "}">>, <<"{", "\"", "e", "r", "r", "o", "r", "\"", ":", "\"", "u", "c", "\"", "}">>, <<"{", " ", "\"", "s", "t", "a", "t", "u", "s", "\"", ":", " ", "4", "0", "0", ",", " ", "\"", "m", "e", "s", "s", "a", "g", "e", "\"", ":", " ", "\"", "u", "c", "\"", " ", "}">>}

OtherDetailsBodies ==
    {<<"{", "\"", "d", "e", "t", "a", "i", "l", "s", "\"", ":", "n", "u", "l", "l", "}">>, <<"{", "\"", "d", "e", "t", "a", "i", "l", "s", "\"", ":", "7", "}">>, <<"{", "\"", "d", "e", "t", "a", "i", "l", "s", "\"", ":", "-", "1", ".", "5", "0", "}">>,
     <<"{", "\"", "d", "e", "t", "a", "i", "l", "s", "\"", ":", "[", "\"", "u", "\"", ",", "{", "\"", "c", "\"", ":", "t", "r", "u", "e", "}", "]", "}">>, <<"{", "\"", "d", "e", "t", "a", "i", "l", "s", "\"", ":", "\"", "u", "\"", ",", "\"", "d", "e", "t", "a", "i", "l", "s", "\"", ":", "\"", "c", "\"", "}">>,
     <<" ", "{", "\"", "e", "r", "r", "o", "r", "\"", ":", "\"", "c", "\"", ",", " ", "\"", "d", "e", "t", "a", "i", "l", "s", "\"", " ", ":", " ", "\"", "i", "t", "'", "s", "\"", "}", " ">>}

NonObjectJsonBodies ==
    {<<"[", "]">>, <<"[", "{", "\"", "p", "k", "\"", ":", "\"", "7", "\"", ",", "\"", "s", "c", "o", "r", "e", "\"", ":", "9", "4", ".", "1", "2", "}", ",", "{", "\"", "p", "k", "\"", ":", "\"", "3", "\"", ",", "\"", "s", "c", "o", "r", "e", "\"", ":", "8", "8", ".", "4", "5", "}", "]">>,
     <<"\"", "u", "c", "\"">>, <<"7">>, <<"n", "u", "l", "l">>, <<"f", "a", "l", "s", "e">>}

NonJsonBodies ==
    {<<>>, <<"o", "o", "p", "s">>, <<"<", "h", "t", "m", "l", ">", "5", "0", "2", "<", "/", "h", "t", "m", "l", ">">>, <<"{", "\"", "d", "e", "t", "a", "i", "l", "s", "\"", ":", "\"", "u", "\"">>, <<"{", "'", "d", "e", "t", "a", "i", "l", "s", "'", ":", "'", "u", "'", "}">>,
     <<"{", "\"", "d", "e", "t", "a", "i", "l", "s", "\"", ":", "\"", "u", "\"", "}", " ", "x">>, <<"[", "0", "1", "]">>}

Bodies ==
    {DetailsBody(x) : x \in DetailTexts}
    \cup ObjectBodiesWithoutDetails \cup OtherDetailsBodies
    \cup NonObjectJsonBodies \cup NonJsonBodies

Responses == [status_code : StatusCodes, text : Bodies]

FewResponses ==
    [status_code : {200, 400}, text : {DetailsBody(<<"u">>), <<"o", "o", "p", "s">>}]

----------------------------------------------------------------------------
(* Actions *)

Init ==
    /\ BASE_URL = "http://localhost:8080/ebx-ps-fasttrack/rest"
    /\ AUTH = <<"admin", "admin">>
    /\ pc = [i \in Inv |-> "idle"]
    /\ frame = [i \in Inv |-> NoFrame]
    /\ nreq = [i \in Inv |-> 0]
    /\ requests = {}
    /\ responses = {}
    /\ served = [i \in Inv |-> NoResponse]
    /\ outcome = [i \in Inv |-> NoOutcome]

\* The runtime calls a tool: the coroutine opens its own AsyncClient, sends
\* its request and suspends in the await.
Invoke(i, call) ==
    /\ pc[i] = "idle"
    /\ pc' = [pc EXCEPT ![i] = "awaiting"]
    /\ frame' = [frame EXCEPT ![i] = call]
    /\ nreq' = [nreq EXCEPT ![i] = @ + 1]
    /\ requests' = requests \cup {[from |-> i, req |-> RequestOf(call)]}
    /\ UNCHANGED <<BASE_URL, AUTH, responses, served, outcome>>

\* The backend answers a request.
Backend(m, response) ==
    /\ m \in requests
    /\ requests' = requests \ {m}
    /\ responses' = responses \cup {[to |-> m.from, response |-> response]}
    /\ served' = [served EXCEPT ![m.from] = response]
    /\ UNCHANGED <<BASE_URL, AUTH, pc, frame, nreq, outcome>>

\* Faulty variant: one client shared by the invocations, any response resumes any of them.
DeliverableAny(i) == responses

\* The responses that can resume invocation i: those on its own client.
Deliverable(i) == {m \in responses : m.to = i}

\* Where the invocation stands once the tool has run to its end.
PcAfter(out) == IF out.kind = "return" THEN "returned" ELSE "raised"

\* Faulty variant: an error status answered by sending the request once more.
ReceiveRetry(i) ==
    /\ pc[i] = "awaiting"
    /\ \E m \in Deliverable(i) :
        \E out \in {ResultOf(frame[i].op, m.response)} :
        \E again \in {is_error(m.response) /\ nreq[i] < 2} :
            /\ responses' = responses \ {m}
            /\ requests' = IF again
                           THEN requests \cup {[from |-> i, req |-> RequestOf(frame[i])]}
                           ELSE requests
            /\ nreq' = [nreq EXCEPT ![i] = IF again THEN @ + 1 ELSE @]
            /\ outcome' = [outcome EXCEPT ![i] = IF again THEN @ ELSE out]
            /\ pc' = [pc EXCEPT ![i] = IF again THEN "awaiting" ELSE PcAfter(out)]
    /\ UNCHANGED <<BASE_URL, AUTH, frame, served>>

\* The await resumes with the response, and the tool runs to its end.
Receive(i) ==
    /\ pc[i] = "awaiting"
    /\ \E m \in Deliverable(i) :
        \E out \in {ResultOf(frame[i].op, m.response)} :
            /\ responses' = responses \ {m}
            /\ outcome' = [outcome EXCEPT ![i] = out]
            /\ pc' = [pc EXCEPT ![i] = PcAfter(out)]
    /\ UNCHANGED <<BASE_URL, AUTH, frame, nreq, requests, served>>

\* The request fails in transport (connection refused, timeout): the await
\* raises, and no tool catches it.  A response lost on its way back is the
\* same event for the tool: it never sees a response.
TransportFailure(i) ==
    /\ pc[i] = "awaiting"
    /\ \E m \in requests :
        /\ m.from = i
        /\ requests' = requests \ {m}
    /\ outcome' = [outcome EXCEPT ![i] = Raise("ConnectError")]
    /\ pc' = [pc EXCEPT ![i] = "raised"]
    /\ UNCHANGED <<BASE_URL, AUTH, frame, nreq, responses, served>>

\* Several invocations in progress at once.
Next ==
    \/ \E i \in Inv, call \in FewCalls : Invoke(i, call)
    \/ \E m \in requests, response \in FewResponses : Backend(m, response)
    \/ \E i \in Inv : Receive(i)
    \/ \E i \in Inv : TransportFailure(i)

Spec == Init /\ [][Next]_vars

\* One invocation, over every call and every response.
NextOne ==
    \/ \E call \in Calls : Invoke(1, call)
    \/ \E m \in requests, response \in Responses : Backend(m, response)
    \/ Receive(1)
    \/ TransportFailure(1)

SpecOne == Init /\ [][NextOne]_vars

----------------------------------------------------------------------------
(* Properties *)

Finished(i) == pc[i] \in {"returned", "raised"}

\* Invocation i has run to its end on a response of the backend.
Answered(i) == Finished(i) /\ served[i] # NoResponse

\* The tools that rewrite an error response.
Rewriting == {"execute_sql", "get_table_definition", "find_similar_records"}

IsJson(t) == JsonLoads(t).ok

IsJsonObject(t) == JsonLoads(t).ok /\ JsonLoads(t).val.t = "obj"

HasDetails(t) ==
    /\ IsJsonObject(t)
    /\ \E j \in 1..Len(JsonLoads(t).val.items) : JsonLoads(t).val.items[j].k = <<"d", "e", "t", "a", "i", "l", "s">>

\* The error prefix each rewriting tool writes.
ErrorLabel(op) ==
    IF op = "find_similar_records" THEN <<"E", "B", "X", " ", "V", "e", "c", "t", "o", "r", " ", "S", "i", "m", "i", "l", "a", "r", "i", "t", "y", " ", "E", "r", "r", "o", "r", ":", " ">>
    ELSE <<"E", "B", "X", " ", "S", "Q", "L", " ", "E", "r", "r", "o", "r", ":", " ">>

SimilarList == <<"[", "{", "\"", "p", "k", "\"", ":", "\"", "7", "\"", ",", "\"", "s", "c", "o", "r", "e", "\"", ":", "9", "4", ".", "1", "2", "}", ",", "{", "\"", "p", "k", "\"", ":", "\"", "3", "\"", ",", "\"", "s", "c", "o", "r", "e", "\"", ":", "8", "8", ".", "4", "5", "}", "]">>

\* C1: for each of the four tools, a 2xx response with body B makes the tool
\* return exactly B.
C1_SuccessPassthrough ==
    \A i \in Inv :
        (Answered(i) /\ is_success(served[i]))
            => /\ pc[i] = "returned"
               /\ outcome[i].kind = "return"
               /\ outcome[i].value = served[i].text

\* find_similar_records called with k = 1 has returned a two-element list as received.
C1_Witness ==
    \E i \in Inv :
        /\ frame[i].op = "find_similar_records"
        /\ "k" \in DOMAIN frame[i].kwargs
        /\ frame[i].kwargs.k = 1
        /\ served[i] = [status_code |-> 200, text |-> SimilarList]
        /\ pc[i] = "returned"
        /\ outcome[i].value = SimilarList

\* C2: for the three rewriting tools, a non-2xx response whose body is
\* {"details": "X"} makes the tool return a string that contains X and a label
\* specific to the tool called: two different tools given the same such
\* response do not return the same string.
C2_DetailsWithOwnLabel ==
    \A i \in Inv :
        (/\ Answered(i)
         /\ frame[i].op \in Rewriting
         /\ ~is_success(served[i])
         /\ \E x \in DetailTexts : served[i].text = DetailsBody(x))
            => /\ outcome[i].kind = "return"
               /\ \A x \in DetailTexts :
                    served[i].text = DetailsBody(x) => Contains(outcome[i].value, x)
               /\ \A j \in Inv :
                    (/\ Answered(j)
                     /\ frame[j].op \in Rewriting
                     /\ frame[j].op # frame[i].op
                     /\ served[j] = served[i])
                        => outcome[j].value # outcome[i].value

\* C3 as stated: for the three rewriting tools, every non-2xx response with a
\* body that is not JSON makes the tool return a string containing the status
\* code and the raw body.
C3_NonJsonAnyNon2xx ==
    \A i \in Inv :
        (/\ Answered(i)
         /\ frame[i].op \in Rewriting
         /\ ~is_success(served[i])
         /\ ~IsJson(served[i].text))
            => /\ outcome[i].kind = "return"
               /\ Contains(outcome[i].value, IntToText(served[i].status_code))
               /\ Contains(outcome[i].value, served[i].text)

\* C3 amended: for the three rewriting tools, every 4xx or 5xx response with a
\* body that is not JSON makes the tool return a string containing the status
\* code and the raw body.
C3_NonJsonErrorStatus ==
    \A i \in Inv :
        (/\ Answered(i)
         /\ frame[i].op \in Rewriting
         /\ is_error(served[i])
         /\ ~IsJson(served[i].text))
            => /\ outcome[i].kind = "return"
               /\ Contains(outcome[i].value, IntToText(served[i].status_code))
               /\ Contains(outcome[i].value, served[i].text)

\* get_table_definition has returned the fallback message of a 404 with an HTML body.
C3_Witness ==
    \E i \in Inv :
        /\ frame[i].op = "get_table_definition"
        /\ served[i] = [status_code |-> 404, text |-> <<"<", "h", "t", "m", "l", ">", "5", "0", "2", "<", "/", "h", "t", "m", "l", ">">>]
        /\ pc[i] = "returned"
        /\ outcome[i].value = <<"H", "T", "T", "P", " ", "E", "r", "r", "o", "r", " ", "4", "0", "4", ":", " ", "<", "h", "t", "m", "l", ">", "5", "0", "2", "<", "/", "h", "t", "m", "l", ">">>

\* C4 as stated: for the three rewriting tools, an error status with a JSON
\* object that has no `details` field makes the tool return a message that
\* embeds the status code and the raw body.
C4_NoDetailsFallsBack ==
    \A i \in Inv :
        (/\ Answered(i)
         /\ frame[i].op \in Rewriting
         /\ is_error(served[i])
         /\ IsJsonObject(served[i].text)
         /\ ~HasDetails(served[i].text))
            => /\ outcome[i].kind = "return"
               /\ Contains(outcome[i].value, IntToText(served[i].status_code))
               /\ Contains(outcome[i].value, served[i].text)

\* C4 amended: for the three rewriting tools, an error status with a JSON
\* object that has no `details` field makes the tool return its error prefix
\* followed by "Unknown error", which embeds neither the status code nor the
\* body.
C4_NoDetailsUnknownError ==
    \A i \in Inv :
        (/\ Answered(i)
         /\ frame[i].op \in Rewriting
         /\ is_error(served[i])
         /\ IsJsonObject(served[i].text)
         /\ ~HasDetails(served[i].text))
            => /\ outcome[i].kind = "return"
               /\ outcome[i].value = ErrorLabel(frame[i].op) \o <<"U", "n", "k", "n", "o", "w", "n", " ", "e", "r", "r", "o", "r">>
               /\ ~Contains(outcome[i].value, IntToText(served[i].status_code))
               /\ ~Contains(outcome[i].value, served[i].text)

\* find_similar_records has answered a 500 whose body is {"error":"uc"}.
C4_Witness ==
    \E i \in Inv :
        /\ frame[i].op = "find_similar_records"
        /\ served[i] = [status_code |-> 500, text |-> <<"{", "\"", "e", "r", "r", "o", "r", "\"", ":", "\"", "u", "c", "\"", "}">>]
        /\ pc[i] = "returned"
        /\ outcome[i].value = <<"E", "B", "X", " ", "V", "e", "c", "t", "o", "r", " ", "S", "i", "m", "i", "l", "a", "r", "i", "t", "y", " ", "E", "r", "r", "o", "r", ":", " ", "U", "n", "k", "n", "o", "w", "n", " ", "e", "r", "r", "o", "r">>

\* C5: search_schema raises on every non-2xx response, also one whose body
\* carries `details`; it returns neither a rewritten string nor the body.
C5_SearchSchemaRaises ==
    \A i \in Inv :
        (/\ Answered(i)
         /\ frame[i].op = "search_schema"
         /\ ~is_success(served[i]))
            => /\ pc[i] = "raised"
               /\ outcome[i].kind = "raise"
               /\ outcome[i].exc = "HTTPStatusError"
               /\ outcome[i].value = <<>>

\* search_schema has raised on a 400 whose body is {"details":"uc"}.
C5_Witness ==
    \E i \in Inv :
        /\ frame[i].op = "search_schema"
        /\ served[i] = [status_code |-> 400, text |-> DetailsBody(<<"u", "c">>)]
        /\ pc[i] = "raised"

\* C6: execute_sql, given an error status whose body is {"details": X} with X
\* a string, returns exactly "EBX SQL Error: " followed by X, whatever its
\* arguments.
C6_SqlErrorExact ==
    \A i \in Inv : \A x \in DetailTexts :
        (/\ Answered(i)
         /\ frame[i].op = "execute_sql"
         /\ is_error(served[i])
         /\ served[i].text = DetailsBody(x))
            => /\ outcome[i].kind = "return"
               /\ outcome[i].value = <<"E", "B", "X", " ", "S", "Q", "L", " ", "E", "r", "r", "o", "r", ":", " ">> \o x

\* The example of the specification: a 400 with {"details":"unknown column"}.
C6_Witness ==
    \E i \in Inv :
        /\ frame[i] = [op |-> "execute_sql",
                       kwargs |-> [sql |-> SqlText, dataspace |-> "Reference",
                                   dataset |-> "MIMA"]]
        /\ served[i] = [status_code |-> 400, text |-> <<"{", "\"", "d", "e", "t", "a", "i", "l", "s", "\"", ":", "\"", "u", "n", "k", "n", "o", "w", "n", " ", "c", "o", "l", "u", "m", "n", "\"", "}">>]
        /\ pc[i] = "returned"
        /\ outcome[i].value = <<"E", "B", "X", " ", "S", "Q", "L", " ", "E", "r", "r", "o", "r", ":", " ", "u", "n", "k", "n", "o", "w", "n", " ", "c", "o", "l", "u", "m", "n">>

RECURSIVE SumUpTo(_, _)
SumUpTo(f, n) == IF n = 0 THEN 0 ELSE f[n] + SumUpTo(f, n - 1)

InFlight(i) ==
    Cardinality({m \in requests : m.from = i}) + Cardinality({m \in responses : m.to = i})

\* C7: every invocation issues exactly one request and then finishes; no
\* request follows a failure, so the requests issued are as many as the
\* invocations started.
C7_OneRequestPerInvocation ==
    /\ SumUpTo(nreq, MaxCalls) = Cardinality({i \in Inv : pc[i] # "idle"})
    /\ \A i \in Inv :
        /\ nreq[i] = IF pc[i] = "idle" THEN 0 ELSE 1
        /\ pc[i] = "awaiting" => InFlight(i) = 1
        /\ pc[i] # "awaiting" => InFlight(i) = 0

\* One invocation has returned the rewrite of an error status, another has
\* raised, and each has issued one request.
C7_Witness ==
    \E i, j \in Inv :
        /\ pc[i] = "returned" /\ is_error(served[i]) /\ nreq[i] = 1
        /\ pc[j] = "raised" /\ nreq[j] = 1

\* C8: under any interleaving, the outcome of an invocation is decided by its
\* own tool and the response to its own request; the base URL and the
\* credentials never change; a request carries its own invocation's
\* arguments and a response reaches the invocation that sent the request.
C8_Independent ==
    /\ BASE_URL = "http://localhost:8080/ebx-ps-fasttrack/rest"
    /\ AUTH = <<"admin", "admin">>
    /\ \A m \in requests : m.req = RequestOf(frame[m.from])
    /\ \A m \in responses : m.response = served[m.to]
    /\ \A i \in Inv :
        Finished(i) =>
            outcome[i] = IF served[i] = NoResponse THEN Raise("ConnectError")
                         ELSE ResultOf(frame[i].op, served[i])

\* Two invocations of different tools, answered differently, have both finished.
C8_Witness ==
    \E i, j \in Inv :
        /\ Answered(i) /\ Answered(j)
        /\ frame[i].op # frame[j].op
        /\ served[i] # served[j]
        /\ outcome[i] # outcome[j]

BasicAuth == <<"admin", "admin">>

KOf(kwargs) == IF "k" \in DOMAIN kwargs THEN kwargs.k ELSE 5

\* C9: every request is the one of its tool: method, endpoint, exactly the
\* tool's arguments, the fixed credentials; k is 5 when omitted and is
\* otherwise forwarded unchanged.
C9_RequestShape ==
    \A m \in requests :
        LET call == frame[m.from]
            a    == call.kwargs
        IN
        /\ m.req.auth = BasicAuth
        /\ call.op \in Tools
        /\ call.op = "search_schema" =>
            /\ m.req.method = "GET"
            /\ m.req.url = BASE_URL \o "/agent/v1/search"
            /\ m.req.params = << <<"query", a.query>> >>
            /\ m.req.json = <<>>
        /\ call.op = "get_table_definition" =>
            /\ m.req.method = "GET"
            /\ m.req.url = BASE_URL \o "/agent/v1/fields"
            /\ m.req.params = << <<"dataspace", a.dataspace>>, <<"dataset", a.dataset>>,
                                 <<"path", a.path>> >>
            /\ m.req.json = <<>>
        /\ call.op = "execute_sql" =>
            /\ m.req.method = "POST"
            /\ m.req.url = BASE_URL \o "/agent/v1/sql"
            /\ m.req.params = <<>>
            /\ m.req.json = << <<"sql", a.sql>>, <<"dataspace", a.dataspace>>,
                               <<"dataset", a.dataset>> >>
        /\ call.op = "find_similar_records" =>
            /\ m.req.method = "POST"
            /\ m.req.url = BASE_URL \o "/agent/v1/vector-similarity"
            /\ m.req.params = <<>>
            /\ m.req.json = << <<"dataspace", a.dataspace>>, <<"dataset", a.dataset>>,
                               <<"tablePath", a.table_path>>, <<"recordPk", a.record_pk>>,
                               <<"k", KOf(a)>> >>

\* A find_similar_records request is in flight whose caller passed k = -1.
C9_Witness ==
    \E m \in requests :
        /\ frame[m.from].op = "find_similar_records"
        /\ "k" \in DOMAIN frame[m.from].kwargs
        /\ frame[m.from].kwargs.k = -1
        /\ m.req.json[5] = <<"k", -1>>

\* C10: for the three rewriting tools, an error status whose body is valid
\* JSON but not an object makes the tool return "HTTP Error <status>: <raw
\* body>"; so on every error status, whatever the body, they return a string.
C10_NonObjectJsonFallsBack ==
    \A i \in Inv :
        (/\ Answered(i)
         /\ frame[i].op \in Rewriting
         /\ is_error(served[i]))
            => /\ pc[i] = "returned"
               /\ outcome[i].kind = "return"
               /\ (IsJson(served[i].text) /\ ~IsJsonObject(served[i].text))
                    => outcome[i].value =
                         <<"H", "T", "T", "P", " ", "E", "r", "r", "o", "r", " ">> \o IntToText(served[i].status_code)
                         \o <<":", " ">> \o served[i].text

\* execute_sql has answered a 500 whose body is the JSON value null.
C10_Witness ==
    \E i \in Inv :
        /\ frame[i].op = "execute_sql"
        /\ served[i] = [status_code |-> 500, text |-> <<"n", "u", "l", "l">>]
        /\ pc[i] = "returned"
        /\ outcome[i].value = <<"H", "T", "T", "P", " ", "E", "r", "r", "o", "r", " ", "5", "0", "0", ":", " ", "n", "u", "l", "l">>

====
